---- MODULE Spec2Model ----
(***************************************************************************)
(* A model of the web-components-vscode extension: the tag / attribute     *)
(* scanner of the completion provider, the completion provider itself, the *)
(* manifest merge of loadWorkspaceConfig, and the component file cache     *)
(* with the definition provider.                                           *)
(*                                                                         *)
(* Text is a sequence of one-character strings.  Offsets are 0-based, as   *)
(* in the source; CharAt and substring translate to TLA+'s 1-based         *)
(* sequences.  null and undefined are the empty sequence Null: no tag      *)
(* name, attribute name or range is ever empty.                            *)
(***************************************************************************)
EXTENDS Integers, Sequences, FiniteSets, TLC

VARIABLES
    document,       \* the text of the active editor's document
    position,       \* the position of the request, <<line, character>>
    scan,           \* the last result of getHtmlTagName, or Null
    attr,           \* the last call of getAttributeName: <<range, result>>, or Null
    configFile,     \* the workspace and its components.d.json
    loadPc,         \* loadWorkspaceConfig: "idle", "stat" (awaiting fs.stat), "done"
    heap,           \* the objects of the parsed manifest, by the index of their key
    loaded,         \* what loadWorkspaceConfig resolved to: names to heap objects, or Null
    editor,         \* vscode.window.activeTextEditor: [document, selection], or Null
    componentsTags, \* the registry of the completion provider
    completion,     \* the last result of provideCompletionItems, or Null
    componentFilesPathCache, \* the Set of file paths, in insertion order
    disk,           \* the files that exist in the workspace
    searches,       \* the rebuilds in flight: [pc, files, deletedSince], findFiles
                    \* pending or its result, and which files of the result had
                    \* their delete event handled since it was computed
    definition,     \* the last call of provideDefinition: [document, position, result], or Null
    messages,       \* what vscode.window.show...Message has shown to the user
    checkedPath,    \* the argument of isIgnoredPath
    ignored         \* the last result of isIgnoredPath: [result], or Null

scanVars == <<document, position, scan, attr>>
loadVars == <<configFile, loadPc, heap, loaded, messages>>
complVars == <<editor, componentsTags, completion>>
cacheVars == <<componentFilesPathCache, disk, searches, definition>>
ignoreVars == <<checkedPath, ignored>>
vars == <<scanVars, loadVars, complVars, cacheVars, ignoreVars>>

Null == <<>>

(***************************************************************************)
(* Bounds.                                                                 *)
(***************************************************************************)
MaxDocLen == 4      \* the longest document of ShortDocs
MaxAttrs == 2       \* the most attributes of a tag of TagDocs
MaxKeys == 3        \* the most keys of a manifest
MaxComplLen == 3    \* the longest document of ComplShortDocs

(***************************************************************************)
(* Characters.                                                             *)
(***************************************************************************)
LowerLetters == {"a", "b", "c", "x", "y"}
UpperLetters == {"A", "B", "X"}
Digits == {"0", "1", "2"}
NameChars == LowerLetters \cup UpperLetters \cup Digits \cup {"-"}
Whitespace == {" ", "\n", "\r", "\t"}

\* String.prototype.toLowerCase on one character
LowerChar(c) ==
    CASE c = "A" -> "a"
      [] c = "B" -> "b"
      [] c = "X" -> "x"
      [] c = "D" -> "d"
      [] OTHER -> c

toLowerCase(s) == [i \in 1..Len(s) |-> LowerChar(s[i])]

\* text[i] of the source: undefined outside the text
CharAt(text, i) == IF i >= 0 /\ i < Len(text) THEN text[i + 1] ELSE "undefined"

Min(a, b) == IF a < b THEN a ELSE b
Max(a, b) == IF a > b THEN a ELSE b

\* String.prototype.substring(start, end): both clamped to the text, swapped
\* when start > end
substring(text, start, end) ==
    LET s == Max(0, Min(start, Len(text)))
        e == Max(0, Min(end, Len(text)))
    IN  SubSeq(text, Min(s, e) + 1, Max(s, e))

\* the length of the longest prefix of s[from..] made of characters of set
RECURSIVE Run(_, _, _)
Run(s, from, set) ==
    IF from <= Len(s) /\ s[from] \in set THEN 1 + Run(s, from + 1, set) ELSE 0

\* String.prototype.trim
trim(s) ==
    LET lead == Run(s, 1, Whitespace)
        RECURSIVE Trail(_)
        Trail(n) == IF n > lead /\ s[n] \in Whitespace THEN Trail(n - 1) ELSE n
    IN  SubSeq(s, lead + 1, Trail(Len(s)))

(***************************************************************************)
(* Objects: a map in insertion order, as Object.entries and Object.keys    *)
(* read it, is a sequence of <<key, value>> pairs with distinct keys.      *)
(***************************************************************************)
Keys(m) == [i \in 1..Len(m) |-> m[i][1]]
Has(m, k) == \E i \in 1..Len(m) : m[i][1] = k
Get(m, k) == m[CHOOSE i \in 1..Len(m) : m[i][1] = k][2]

\* m[k] = v: an existing key keeps its place
Put(m, k, v) ==
    IF Has(m, k) THEN [i \in 1..Len(m) |-> IF m[i][1] = k THEN <<k, v>> ELSE m[i]]
    ELSE Append(m, <<k, v>>)

\* Object.assign(target, source)
RECURSIVE ObjectAssign(_, _)
ObjectAssign(target, source) ==
    IF source = <<>> THEN target
    ELSE ObjectAssign(Put(target, Head(source)[1], Head(source)[2]), Tail(source))

(***************************************************************************)
(* vscode.TextDocument: lines end with "\n" or "\r\n".                     *)
(***************************************************************************)
\* the offsets at which the lines of the text start
LineStarts(text) ==
    LET RECURSIVE From(_, _)
        From(i, acc) ==
            IF i > Len(text) THEN acc
            ELSE From(i + 1, IF text[i] = "\n" THEN Append(acc, i) ELSE acc)
    IN  From(1, <<0>>)

lineCount(text) == Len(LineStarts(text))

\* the offset just after the last character of line l (0-based), its line
\* break not included
LineEnd(text, l) ==
    LET starts == LineStarts(text)
    IN  IF l + 1 = Len(starts) THEN Len(text)
        ELSE LET nl == starts[l + 2] - 1   \* offset of the "\n"
             IN  IF nl > starts[l + 1] /\ CharAt(text, nl - 1) = "\r"
                 THEN nl - 1 ELSE nl

\* document.lineAt(l).text
lineAt(text, l) == substring(text, LineStarts(text)[l + 1], LineEnd(text, l))

\* document.offsetAt(position): the position is first adjusted to the document
offsetAt(text, pos) ==
    LET n == lineCount(text)
    IN  IF pos[1] >= n THEN Len(text)
        ELSE LineStarts(text)[pos[1] + 1]
             + Min(pos[2], LineEnd(text, pos[1]) - LineStarts(text)[pos[1] + 1])

\* every position of a document
Positions(text) ==
    { <<l, c>> \in (0..(lineCount(text) - 1)) \X (0..Len(text)) :
        c <= LineEnd(text, l) - LineStarts(text)[l + 1] }

(***************************************************************************)
(* getHtmlTagName                                                          *)
(***************************************************************************)
EmptyRes == [tagName |-> Null, range |-> Null, isEndTag |-> FALSE]

\* a variant of the backward loop that takes a `/` for an ordinary character
RECURSIVE SlashBlindBackwardScan(_, _)
SlashBlindBackwardScan(docText, startOffset) ==
    IF startOffset > 0
    THEN LET s == startOffset - 1
             c == CharAt(docText, s)
         IN  IF c = "<" THEN [stop |-> "break", startOffset |-> s]
             ELSE IF c = ">" THEN [stop |-> "inside", startOffset |-> s]
             ELSE SlashBlindBackwardScan(docText, s)
    ELSE [stop |-> "break", startOffset |-> startOffset]

\* step 1, the backward loop from the cursor: where it stops and why
RECURSIVE BackwardScan(_, _)
BackwardScan(docText, startOffset) ==
    IF startOffset > 0
    THEN LET s == startOffset - 1
             c == CharAt(docText, s)
         IN  IF c = "<" THEN [stop |-> "break", startOffset |-> s]
             ELSE IF c = ">" THEN [stop |-> "inside", startOffset |-> s]
             ELSE IF c = "/" THEN [stop |-> "endTag", startOffset |-> s]
             ELSE BackwardScan(docText, s)
    ELSE [stop |-> "break", startOffset |-> startOffset]

\* step 2, the forward loop from the cursor: endOffset when it ends
RECURSIVE ForwardScan(_, _)
ForwardScan(docText, endOffset) ==
    IF endOffset < Len(docText)
    THEN LET e == endOffset + 1
         IN  IF CharAt(docText, e) = ">" THEN e ELSE ForwardScan(docText, e)
    ELSE endOffset


\* /^\s*(\/?)\s*([a-zA-Z0-9-]+)/ and, with trailing, /^\s*(\/?)\s*([a-zA-Z0-9-]+)\s*/
\* on the tag content: Null, or [slash, name, length] of the match
TagNameMatch(tagContent, trailing) ==
    LET ws1   == Run(tagContent, 1, Whitespace)
        slash == ws1 + 1 <= Len(tagContent) /\ tagContent[ws1 + 1] = "/"
        p     == ws1 + (IF slash THEN 1 ELSE 0)
        ws2   == Run(tagContent, p + 1, Whitespace)
        n     == Run(tagContent, p + ws2 + 1, NameChars)
        ws3   == IF trailing THEN Run(tagContent, p + ws2 + n + 1, Whitespace) ELSE 0
    IN  IF n = 0 THEN Null
        ELSE [slash |-> slash,
              name |-> SubSeq(tagContent, p + ws2 + 1, p + ws2 + n),
              length |-> p + ws2 + n + ws3]

getHtmlTagName(docText, docOffset) ==
    LET back == BackwardScan(docText, docOffset)
    IN  IF back.stop = "inside" THEN EmptyRes
        ELSE IF back.stop = "endTag" THEN [EmptyRes EXCEPT !.isEndTag = TRUE]
        ELSE IF CharAt(docText, back.startOffset) # "<" THEN EmptyRes
        ELSE
          LET startOffset == back.startOffset
              endOffset   == ForwardScan(docText, docOffset)
          IN  IF CharAt(docText, endOffset) # ">" THEN EmptyRes
              ELSE
                LET tagContent == substring(docText, startOffset + 1, endOffset)
                    tagMatch   == TagNameMatch(tagContent, FALSE)
                IN  IF tagMatch = Null THEN EmptyRes
                    ELSE [tagName  |-> IF tagMatch.slash THEN Null
                                       ELSE toLowerCase(tagMatch.name),
                          range    |-> <<startOffset + 1, endOffset>>,
                          isEndTag |-> FALSE]

(***************************************************************************)
(* getTagContent and getAttributeName                                      *)
(***************************************************************************)
Chars ==
    NameChars \cup Whitespace \cup {"<", ">", "/", "=", "\"", "'", ".", ",", "\\", "$"}

\* [^\s>]
BareChars == Chars \ (Whitespace \cup {">"})

getTagContent(docText, docOffset, tagRange) ==
    IF docOffset < tagRange[1] \/ docOffset > tagRange[2] THEN Null
    ELSE substring(docText, tagRange[1], tagRange[2])

\* step 3, the loop over the attribute region: the indices (0-based) of the
\* characters it keeps, those that are neither "\n" nor "\r"
offsetMap(attrContent) ==
    LET RECURSIVE Keep(_, _)
        Keep(i, acc) ==
            IF i >= Len(attrContent) THEN acc
            ELSE Keep(i + 1, IF CharAt(attrContent, i) \notin {"\n", "\r"}
                             THEN Append(acc, i) ELSE acc)
    IN  Keep(0, <<>>)

cleanAttrContent(attrContent) ==
    LET map == offsetMap(attrContent)
    IN  [k \in 1..Len(map) |-> CharAt(attrContent, map[k])]

\* step 4: the cursor in the text without line breaks
cleanCursorPos(attrContent, attrRelativeOffset) ==
    LET map   == offsetMap(attrContent)
        found == {k \in 1..Len(map) : map[k] >= attrRelativeOffset}
        first == IF attrRelativeOffset >= 0
                 THEN IF found = {} THEN -1
                      ELSE (CHOOSE k \in found : \A j \in found : k <= j) - 1
                 ELSE 0
    IN  IF first = -1 /\ Len(map) > 0 THEN Len(map) - 1 ELSE first

\* the index (0-based) of the first character c of s at or after from, or -1
RECURSIVE IndexOf(_, _, _)
IndexOf(s, c, from) ==
    IF from >= Len(s) THEN -1
    ELSE IF CharAt(s, from) = c THEN from
    ELSE IndexOf(s, c, from + 1)

\* the index (0-based) of the first character of s at or after from that is in
\* set, or -1
RECURSIVE IndexIn(_, _, _)
IndexIn(s, set, from) ==
    IF from >= Len(s) THEN -1
    ELSE IF CharAt(s, from) \in set THEN from
    ELSE IndexIn(s, set, from + 1)

\* (?:\s*=\s*(?:"[^"]*"|'[^']*'|[^\s>]+))? at index p of s: the index after it
\* (p itself when the group does not match)
AttrValueEnd(s, p) ==
    LET eq == p + Run(s, p + 1, Whitespace)
        v  == eq + 1 + Run(s, eq + 2, Whitespace)
        dq == IF CharAt(s, v) = "\"" THEN IndexOf(s, "\"", v + 1) ELSE -1
        sq == IF CharAt(s, v) = "'" THEN IndexOf(s, "'", v + 1) ELSE -1
        bare == Run(s, v + 1, BareChars)
    IN  IF CharAt(s, eq) # "=" THEN p
        ELSE IF dq >= 0 THEN dq + 1
        ELSE IF sq >= 0 THEN sq + 1
        ELSE IF bare > 0 THEN v + bare
        ELSE p

\* attrRegex.exec(s) with attrRegex.lastIndex = lastIndex: Null, or the match
\* [name, index, lastIndex]
AttrRegexExec(s, lastIndex) ==
    LET i == IndexIn(s, NameChars, lastIndex)
        n == Run(s, i + 1, NameChars)
    IN  IF i < 0 THEN Null
        ELSE [name |-> SubSeq(s, i + 1, i + n),
              index |-> i,
              lastIndex |-> AttrValueEnd(s, i + n)]

\* step 5, the loop over the matches of attrRegex
RECURSIVE MatchLoop(_, _, _)
MatchLoop(clean, lastIndex, cursor) ==
    LET match == AttrRegexExec(clean, lastIndex)
    IN  IF match = Null THEN Null
        ELSE IF cursor >= match.index /\ cursor <= match.lastIndex
             THEN toLowerCase(match.name)
        ELSE MatchLoop(clean, match.lastIndex, cursor)

getAttributeName(docText, docOffset, tagRange) ==
    IF docOffset < tagRange[1] \/ docOffset > tagRange[2] THEN Null
    ELSE
      LET tagContent   == substring(docText, tagRange[1], tagRange[2])
          tagNameMatch == TagNameMatch(tagContent, TRUE)
      IN  IF tagNameMatch = Null THEN Null
          ELSE
            LET attrContent == substring(tagContent, tagNameMatch.length, Len(tagContent))
                tagContentOffset   == docOffset - tagRange[1]
                attrRelativeOffset == tagContentOffset - tagNameMatch.length
            IN  MatchLoop(cleanAttrContent(attrContent), 0,
                          cleanCursorPos(attrContent, attrRelativeOffset))

(***************************************************************************)
(* The documents and positions of the requests.                            *)
(***************************************************************************)
ScanAlphabet == {"<", ">", "/", "a", "B", " ", "\n"}

\* every text of at most MaxDocLen characters of ScanAlphabet
ShortDocs == UNION { [1..n -> ScanAlphabet] : n \in 0..MaxDocLen }

TagNames == { <<"x">>, <<"A", "b">> }
Separators == { <<" ">>, <<"\n">>, <<"\n", " ", " ">> }
Attributes ==
    { <<"a">>,
      <<"b", "=", "\"", "1", "\"">>,
      <<"c", "=", "2", "/">>,
      <<"B", "=", "'", "x", " ", "y", "'">> }

\* up to k attributes, each after a separator
RECURSIVE AttrLists(_)
AttrLists(k) ==
    IF k = 0 THEN { <<>> }
    ELSE { <<>> } \cup
         { s \o a \o rest : s \in Separators, a \in Attributes, rest \in AttrLists(k - 1) }

\* one tag with up to MaxAttrs attributes, on one line or wrapped
TagDocs == { <<"<">> \o n \o attrs \o <<">">> : n \in TagNames, attrs \in AttrLists(MaxAttrs) }

\* the same text in a document whose lines end with "\r\n"
RECURSIVE ToCRLF(_)
ToCRLF(text) ==
    IF text = <<>> THEN <<>>
    ELSE (IF Head(text) = "\n" THEN <<"\r", "\n">> ELSE <<Head(text)>>) \o ToCRLF(Tail(text))

Docs == ShortDocs \cup TagDocs \cup { ToCRLF(d) : d \in TagDocs }

docOffset == offsetAt(document, position)


(***************************************************************************)
(* loadWorkspaceConfig                                                     *)
(*                                                                         *)
(* JSON.parse gives one object per manifest key; obj[name] = value stores  *)
(* a reference to it, so the names of one key share one object.  heap[i]   *)
(* is the object of the i-th key and obj maps a name to an index of heap.  *)
(***************************************************************************)
\* key.split(',')
RECURSIVE split(_)
split(key) ==
    LET comma == IndexOf(key, ",", 0)
    IN  IF comma < 0 THEN <<key>>
        ELSE <<substring(key, 0, comma)>> \o split(substring(key, comma + 1, Len(key)))

SelectNonEmpty(names) == SelectSeq(names, LAMBDA n : n # <<>>)

\* key.split(',').map((item) => item.trim()).filter((item) => item)
keysOf(key) ==
    LET parts == split(key)
    IN  SelectNonEmpty([i \in 1..Len(parts) |-> trim(parts[i])])

\* one pass of the inner loop: name `key` of the manifest key whose object is
\* heap[value].  st is [heap, obj, error]
MergeName(st, key, value) ==
    IF st.error THEN st
    ELSE IF Has(st.obj, key)
    THEN LET target == Get(st.obj, key)
             h1 == IF st.heap[value].description # ""
                   THEN [st.heap EXCEPT ![target].description = st.heap[value].description]
                   ELSE st.heap
         IN  IF ~h1[target].hasAttributes
             THEN [st EXCEPT !.heap = h1, !.error = TRUE]   \* Object.assign(undefined, ...) throws
             ELSE IF ~h1[value].hasAttributes THEN [st EXCEPT !.heap = h1]
             ELSE [st EXCEPT !.heap =
                      [h1 EXCEPT ![target].attributes =
                          ObjectAssign(h1[target].attributes, h1[value].attributes)]]
    ELSE [st EXCEPT !.obj = Put(st.obj, key, value)]

RECURSIVE MergeNames(_, _, _)
MergeNames(st, keys, value) ==
    IF keys = <<>> THEN st
    ELSE MergeNames(MergeName(st, Head(keys), value), Tail(keys), value)

\* the outer loop over Object.entries(customConfig), from entry i on
RECURSIVE MergeEntries(_, _, _)
MergeEntries(st, entries, i) ==
    IF i > Len(entries) THEN st
    ELSE MergeEntries(MergeNames(st, keysOf(entries[i][1]), i), entries, i + 1)

\* the parsed manifest: its objects as JSON.parse built them
ParsedHeap(entries) == [i \in 1..Len(entries) |-> entries[i][2]]

\* the try block after the await, up to the return
MergeManifest(entries) ==
    MergeEntries([heap |-> ParsedHeap(entries), obj |-> <<>>, error |-> FALSE], entries, 1)

\* the registry a result of loadWorkspaceConfig stands for: each name with the
\* object it refers to
Registry(obj, h) == [i \in 1..Len(obj) |-> <<obj[i][1], h[obj[i][2]]>>]

(***************************************************************************)
(* Manifests: the keys and entries of components.d.json.                   *)
(***************************************************************************)
AttrX1 == [description |-> "x1", type |-> "String", values |-> <<[str |-> <<"a">>], [num |-> 12]>>]
AttrX2 == [description |-> "x2", type |-> "Number", values |-> <<[num |-> 2]>>]
AttrY1 == [description |-> "y1", type |-> "String", values |-> <<>>]

ManifestKeys ==
    { <<"a", ",", "b">>, <<"b">>, <<"a">>, <<" ", "b", " ", ",", ",">> }

ManifestValues ==
    { [description |-> "d1", hasAttributes |-> TRUE, attributes |-> << <<<<"x">>, AttrX1>> >>],
      [description |-> "d2", hasAttributes |-> TRUE, attributes |-> << <<<<"y">>, AttrY1>> >>],
      [description |-> "", hasAttributes |-> TRUE,
       attributes |-> << <<<<"y">>, AttrY1>>, <<<<"x">>, AttrX2>> >>],
      [description |-> "d3", hasAttributes |-> FALSE, attributes |-> <<>>] }

\* the manifests of exactly n keys, no key twice
RECURSIVE ManifestsOf(_)
ManifestsOf(n) ==
    IF n = 0 THEN { <<>> }
    ELSE { Append(m, <<k, v>>) :
             m \in ManifestsOf(n - 1), k \in ManifestKeys, v \in ManifestValues }

Manifests ==
    { m \in UNION { ManifestsOf(n) : n \in 0..MaxKeys } :
        \A i, j \in 1..Len(m) : i # j => m[i][1] # m[j][1] }

\* workspaceFolders is undefined (noWorkspace) or an empty list (noFolders);
\* otherwise components.d.json is missing, cannot be read, is not JSON, is
\* JSON but no object, or is an object
ConfigFiles ==
    { [kind |-> k, entries |-> <<>>] :
        k \in {"noWorkspace", "noFolders", "missing", "unreadable", "invalid", "notObject"} }
    \cup { [kind |-> "object", entries |-> m] : m \in Manifests }

(***************************************************************************)
(* The loader: a workspace, its manifest file, and loadWorkspaceConfig.    *)
(***************************************************************************)
LoadIdle ==
    /\ configFile = [kind |-> "noWorkspace", entries |-> <<>>]
    /\ loadPc = "idle"
    /\ heap = <<>>
    /\ loaded = Null
    /\ messages = <<>>

LoadInit ==
    /\ configFile \in ConfigFiles
    /\ loadPc = "idle"
    /\ heap = <<>>
    /\ loaded = Null
    /\ messages = <<>>

\* the call, up to the await of fs.stat; without a workspace it returns {};
\* with an empty list workspaceFolders[0].uri throws, outside the try block,
\* and the promise is rejected
LoadStart ==
    /\ loadPc = "idle"
    /\ IF configFile.kind = "noWorkspace"
       THEN loadPc' = "done" /\ loaded' = [obj |-> <<>>]
       ELSE IF configFile.kind = "noFolders"
       THEN loadPc' = "done" /\ loaded' = [obj |-> <<>>, error |-> "TypeError"]
       ELSE loadPc' = "stat" /\ loaded' = Null
    /\ UNCHANGED <<configFile, heap, messages>>
    /\ UNCHANGED <<scanVars, complVars, cacheVars, ignoreVars>>

\* fs.stat rejects: the file is missing; the catch block, then return {}
StatRejects ==
    /\ loadPc = "stat"
    /\ configFile.kind = "missing"
    /\ loadPc' = "done"
    /\ loaded' = [obj |-> <<>>]
    /\ UNCHANGED <<configFile, heap, messages>>
    /\ UNCHANGED <<scanVars, complVars, cacheVars, ignoreVars>>

\* fs.stat resolves: read, parse, merge, return; an exception on the way is
\* caught and {} returned
StatResolves ==
    /\ loadPc = "stat"
    /\ configFile.kind # "missing"
    /\ loadPc' = "done"
    /\ IF configFile.kind \in {"unreadable", "invalid"}
       THEN loaded' = [obj |-> <<>>] /\ heap' = heap   \* readFileSync or JSON.parse throws
       ELSE LET entries == IF configFile.kind = "object" THEN configFile.entries
                           ELSE <<>>                        \* toObject(...) = {}
                st == MergeManifest(entries)
            IN  /\ heap' = st.heap
                /\ loaded' = [obj |-> IF st.error THEN <<>> ELSE st.obj]
    /\ UNCHANGED <<configFile, messages>>
    /\ UNCHANGED <<scanVars, complVars, cacheVars, ignoreVars>>

(***************************************************************************)
(* The scanner alone: a document, a position, and the two functions.       *)
(***************************************************************************)
ScanInit ==
    /\ document \in Docs
    /\ position \in Positions(document)
    /\ scan = Null
    /\ attr = Null

GetHtmlTagName ==
    /\ scan' = getHtmlTagName(document, docOffset)
    /\ UNCHANGED <<document, position, attr>>
    /\ UNCHANGED <<loadVars, complVars, cacheVars, ignoreVars>>

\* called with the range of the scan, as provideCompletionItems and
\* getAttributeNameAtPosition call it
GetAttributeName ==
    /\ scan # Null
    /\ scan.range # Null
    /\ attr' = <<scan.range, getAttributeName(document, docOffset, scan.range)>>
    /\ UNCHANGED <<document, position, scan>>
    /\ UNCHANGED <<loadVars, complVars, cacheVars, ignoreVars>>



(***************************************************************************)
(* provideCompletionItems                                                  *)
(*                                                                         *)
(* A value of an attribute is a string, [str |-> text], or a number,       *)
(* [num |-> n].  A suggestion is the vscode.CompletionItem as built: its   *)
(* label, kind, insertText (the text of the SnippetString) and, where set, *)
(* its detail and documentation.                                           *)
(***************************************************************************)
DigitChar(d) == <<"0", "1", "2", "3", "4", "5", "6", "7", "8", "9">>[d + 1]

\* `${val}` of a number
RECURSIVE NumberToString(_)
NumberToString(n) ==
    IF n < 10 THEN <<DigitChar(n)>>
    ELSE NumberToString(n \div 10) \o <<DigitChar(n % 10)>>

\* `${val}`
TemplateString(val) ==
    IF "str" \in DOMAIN val THEN val.str ELSE NumberToString(val.num)

\* String.prototype.includes
includes(text, part) ==
    \E i \in 0..(Len(text) - Len(part)) : SubSeq(text, i + 1, i + Len(part)) = part

\* getCharBeforeCursor(): undefined is Null
getCharBeforeCursor(ed) ==
    IF ed = Null THEN Null
    ELSE IF ed.selection[2] = 0 THEN Null
    ELSE LET o == offsetAt(ed.document, ed.selection)
         IN  substring(ed.document, offsetAt(ed.document, <<ed.selection[1], ed.selection[2] - 1>>), o)

\* a variant that wraps every inserted value in double quotes
QuotedValueItems(values) ==
    [i \in 1..Len(values) |->
        [label |-> values[i], kind |-> "Property",
         insertText |-> <<"\"">> \o TemplateString(values[i]) \o <<"\"">>]]

\* values.forEach(...): one suggestion for each value of the attribute
RECURSIVE ValueItems(_)
ValueItems(values) ==
    IF values = <<>> THEN <<>>
    ELSE <<[label |-> Head(values), kind |-> "Property",
            insertText |-> TemplateString(Head(values))]>> \o ValueItems(Tail(values))

\* Object.entries(attributes).forEach(...): one suggestion for each attribute
\* whose `${key}=` is not in the tag content
RECURSIVE AttributeItems(_, _)
AttributeItems(attributes, tagContent) ==
    IF attributes = <<>> THEN <<>>
    ELSE LET key   == Head(attributes)[1]
             value == Head(attributes)[2]
             rest  == AttributeItems(Tail(attributes), tagContent)
         IN  IF includes(tagContent, key \o <<"=">>) THEN rest
             ELSE <<[label |-> key, kind |-> "Property",
                     documentation |-> [key |-> key, type |-> value.type,
                                        description |-> value.description],
                     insertText |-> key \o <<"=", "\"", "$", "0", "\"">>]>> \o rest

\* Object.keys(componentsTags).forEach(...): one suggestion for each component
RECURSIVE TagItems(_, _)
TagItems(registry, txt) ==
    IF registry = <<>> THEN <<>>
    ELSE LET tag == Head(registry)[1]
         IN  <<[label |-> tag, kind |-> "Text",
                detail |-> Head(registry)[2].description,
                documentation |-> Head(registry)[2].description,
                insertText |-> (IF txt = <<"<">> THEN <<>> ELSE <<"<">>)
                               \o tag \o <<">", "$", "0", "<", "/">> \o tag \o <<">">>]>>
             \o TagItems(Tail(registry), txt)

Undefined == [kind |-> "undefined", items |-> <<>>]
Items(items) == [kind |-> "items", items |-> items]
TypeError == [kind |-> "TypeError", items |-> <<>>]

\* attributes[res2] on an object that is there
AttributeEntry(attributes, res2) ==
    IF Has(attributes, res2) THEN Get(attributes, res2) ELSE Null

\* the branch for a resolved tag name, lines 187 to 231.  attributes is
\* componentsTags?.[tagName]?.attributes, Null when undefined
TagBranch(docText, offset, res, registry) ==
    LET entry      == IF Has(registry, res.tagName) THEN Get(registry, res.tagName) ELSE Null
        attributes == IF entry # Null /\ entry.hasAttributes
                      THEN [defined |-> TRUE, map |-> entry.attributes]
                      ELSE [defined |-> FALSE, map |-> <<>>]
        res2       == IF res.range # Null
                      THEN getAttributeName(docText, offset, res.range) ELSE Null
        tagContent == IF res.range # Null
                      THEN getTagContent(docText, offset, res.range) ELSE <<>>
    IN  IF res.range # Null /\ res2 # Null /\ ~attributes.defined
        THEN TypeError                   \* attributes[res2] of undefined
        ELSE IF res.range # Null /\ res2 # Null /\ AttributeEntry(attributes.map, res2) # Null
        THEN Items(ValueItems(AttributeEntry(attributes.map, res2).values))
        ELSE IF attributes.defined
        THEN Items(AttributeItems(attributes.map, tagContent))
        ELSE Items(<<>>)

provideCompletionItems(ed, pos, registry) ==
    IF ed = Null THEN Undefined
    ELSE LET docText == ed.document
             offset  == offsetAt(docText, pos)
             res     == getHtmlTagName(docText, offset)
         IN  IF res.isEndTag THEN Undefined
             ELSE IF res.tagName # Null THEN TagBranch(docText, offset, res, registry)
             ELSE Items(TagItems(registry, getCharBeforeCursor(ed)))

(***************************************************************************)
(* The registries, documents and editors of the completion requests.       *)
(***************************************************************************)
AttrA == [description |-> "a1", type |-> "String", values |-> <<[str |-> <<"p">>], [num |-> 12], [str |-> <<"q", " ", "r">>]>>]
AttrB == [description |-> "b1", type |-> "Number", values |-> <<[num |-> 2]>>]
AttrC == [description |-> "c1", type |-> "String", values |-> <<>>]

Registries ==
    { <<>>,
      << <<<<"x">>, [description |-> "dx", hasAttributes |-> TRUE,
                     attributes |-> << <<<<"a">>, AttrA>>, <<<<"b">>, AttrB>>, <<<<"y">>, AttrC>> >>]>>,
         <<<<"a", "b">>, [description |-> "", hasAttributes |-> FALSE, attributes |-> <<>>]>> >>,
      << <<<<"a", "b">>, [description |-> "dab", hasAttributes |-> TRUE,
                          attributes |-> << <<<<"c">>, AttrC>>, <<<<"B">>, AttrB>> >>]>> >> }

\* the short documents of the completion requests
ComplShortDocs == UNION { [1..n -> {"<", ">", "/", "x", "\n"}] : n \in 0..MaxComplLen }

ComplDocs == ComplShortDocs \cup TagDocs

\* another document, open in the active editor while a request is served
OtherDoc == <<"<", "x", " ", "a", ">", "\n", "<">>

\* the active editor when a request for (doc, pos) is served: none, the
\* document with its cursor at the position, the document with its cursor
\* elsewhere, or another document
Editors(doc, pos) ==
    { Null, [document |-> doc, selection |-> pos] }
    \cup { [document |-> doc, selection |-> p] : p \in { q \in Positions(doc) : q[2] <= 1 } }
    \cup { [document |-> OtherDoc, selection |-> p] : p \in { <<0, 0>>, <<0, 4>>, <<1, 1>> } }

ComplIdle ==
    /\ editor = Null
    /\ componentsTags = <<>>
    /\ completion = Null

ComplInit ==
    /\ document \in ComplDocs
    /\ position \in Positions(document)
    /\ scan = Null
    /\ attr = Null
    /\ editor \in Editors(document, position)
    /\ componentsTags \in Registries
    /\ completion = Null

ProvideCompletionItems ==
    /\ completion' = provideCompletionItems(editor, position, componentsTags)
    /\ UNCHANGED <<editor, componentsTags>>
    /\ UNCHANGED <<scanVars, loadVars, cacheVars, ignoreVars>>

(***************************************************************************)
(* The component file cache and the definition provider.  A path is a      *)
(* sequence of characters; the Set componentFilesPathCache is a sequence   *)
(* without duplicates, in insertion order, as its iteration reads it.      *)
(***************************************************************************)
MaxSearches == 1    \* the most cache rebuilds in flight at once

\* Set.prototype.add: a value already in the Set keeps its place
SetAdd(set, value) ==
    IF \E i \in 1..Len(set) : set[i] = value THEN set ELSE Append(set, value)

\* Set.prototype.delete
SetDelete(set, value) == SelectSeq(set, LAMBDA el : el # value)

\* String.prototype.endsWith
endsWith(s, suffix) ==
    Len(suffix) <= Len(s) /\ SubSeq(s, Len(s) - Len(suffix) + 1, Len(s)) = suffix

\* the 1-based index of the last c in s, 0 when there is none
LastIndexOf(s, c) ==
    LET at == { i \in 1..Len(s) : s[i] = c }
    IN  IF at = {} THEN 0 ELSE CHOOSE i \in at : \A k \in at : k <= i

\* the default ignoreDirs of isIgnoredPath
ignoreDirs ==
    << <<"n", "o", "d", "e", "_", "m", "o", "d", "u", "l", "e", "s">>,
       <<".", "g", "i", "t">>,
       <<"d", "i", "s", "t">> >>

\* filePath.replace(/\\/g, '/').toLowerCase()
normalizedPath(filePath) ==
    toLowerCase([i \in 1..Len(filePath) |-> IF filePath[i] = "\\" THEN "/" ELSE filePath[i]])

\* one character of the RegExp source built from a directory name: `.` is
\* the wildcard of the regular expression, any other character is itself
RegexChar(pc, c) == IF pc = "." THEN c \notin {"\n", "\r"} ELSE pc = c

\* new RegExp(`(^|/)${dir}(/|$)`).test(path)
DirRegexTest(dir, path) ==
    \E k \in 0..Len(path) :
        /\ k = 0 \/ path[k] = "/"
        /\ k + Len(dir) <= Len(path)
        /\ \A i \in 1..Len(dir) : RegexChar(dir[i], path[k + i])
        /\ k + Len(dir) = Len(path) \/ path[k + Len(dir) + 1] = "/"

\* a variant that ignores no path
NeverIgnoredPath(filePath) == FALSE

isIgnoredPath(filePath) ==
    \E d \in 1..Len(ignoreDirs) :
        DirRegexTest(toLowerCase(ignoreDirs[d]), normalizedPath(filePath))

\* path.extname: from the last `.` of the last portion of the path, empty
\* when that portion has no `.` but a leading one
extname(filePath) ==
    LET base == SubSeq(filePath, LastIndexOf(filePath, "/") + 1, Len(filePath))
        dot  == LastIndexOf(base, ".")
    IN  IF dot <= 1 \/ base = <<".", ".">> THEN <<>> ELSE SubSeq(base, dot, Len(base))

\* ['.js'].includes(path.extname(filePath))
IsJs(filePath) == extname(filePath) = <<".", "j", "s">>

\* one exec of /<\/?([a-zA-Z0-9-]+)(?:\s|>|$|\n|\r)/g on lineText from
\* lastIndex: [index, lastIndex, name, gt] of the leftmost match, or Null
TagRegexExec(lineText, lastIndex) ==
    LET NameFrom(i) == i + 1 + (IF CharAt(lineText, i + 1) = "/" THEN 1 ELSE 0)
        NameLen(i) == Run(lineText, NameFrom(i) + 1, NameChars)
        After(i) == NameFrom(i) + NameLen(i)
        Matches(i) ==
            /\ CharAt(lineText, i) = "<"
            /\ NameLen(i) > 0
            /\ After(i) = Len(lineText) \/ CharAt(lineText, After(i)) \in Whitespace \cup {">"}
        at == { i \in lastIndex..(Len(lineText) - 1) : Matches(i) }
    IN  IF at = {} THEN Null
        ELSE LET i == CHOOSE m \in at : \A k \in at : m <= k
             IN  [index |-> i,
                  lastIndex |-> Min(After(i) + 1, Len(lineText)),
                  name |-> substring(lineText, NameFrom(i), After(i)),
                  gt |-> CharAt(lineText, After(i)) = ">"]

\* the while loop of getTagNameAtPosition
RECURSIVE TagAtLoop(_, _, _)
TagAtLoop(lineText, character, lastIndex) ==
    LET match == TagRegexExec(lineText, lastIndex)
    IN  IF match = Null THEN Null
        ELSE LET tagStart == match.index + 1
                 tagEnd == match.lastIndex - (IF match.gt THEN 1 ELSE 0)
             IN  IF character >= tagStart /\ character <= tagEnd THEN match.name
                 ELSE TagAtLoop(lineText, character, match.lastIndex)

getTagNameAtPosition(doc, pos) == TagAtLoop(lineAt(doc, pos[1]), pos[2], 0)

\* a variant that returns the last path of the cache that ends with the name
LastTargetFilePath(cache, tagName) ==
    LET at == { i \in 1..Len(cache) : endsWith(cache[i], tagName \o <<".", "j", "s">>) }
    IN  IF at = {} THEN Null ELSE cache[CHOOSE i \in at : \A k \in at : k <= i]

\* [...componentFilesPathCache].find((el) => el.endsWith(`${tagName}.js`)) || null
getTargetFilePath(cache, tagName) ==
    LET at == { i \in 1..Len(cache) : endsWith(cache[i], tagName \o <<".", "j", "s">>) }
    IN  IF at = {} THEN Null ELSE cache[CHOOSE i \in at : \A k \in at : i <= k]

\* new vscode.Location(vscode.Uri.file(targetPath), new Range((0,0), (0,0)))
Location(targetPath) == [uri |-> targetPath, range |-> <<<<0, 0>>, <<0, 0>>>>]

\* provideDefinition: undefined is Null; files are the files fs.existsSync finds
provideDefinition(doc, pos, cache, files) ==
    LET tagName == getTagNameAtPosition(doc, pos)
    IN  IF tagName = Null THEN Null
        ELSE LET targetPath == getTargetFilePath(cache, tagName)
             IN  IF targetPath = Null \/ targetPath \notin files THEN Null
                 ELSE <<Location(targetPath)>>

\* vscode.workspace.findFiles('**/*.{ts,js}', exclude): the files of the
\* workspace with one of the two extensions.  The exclude argument joins its
\* three patterns with `|`, which is no operator of the glob syntax: the host
\* either excludes the three directories or excludes nothing
findFiles(files, excludes) ==
    { p \in files : /\ extname(p) \in { <<".", "j", "s">>, <<".", "t", "s">> }
                    /\ ~(excludes /\ isIgnoredPath(p)) }

\* fileUris.forEach((uri) => componentFilesPathCache.add(uri.fsPath))
RECURSIVE AddAll(_, _)
AddAll(cache, fileUris) ==
    IF fileUris = <<>> THEN cache
    ELSE AddAll(SetAdd(cache, Head(fileUris)), Tail(fileUris))

\* the orders in which findFiles may list a set of files
Orderings(S) ==
    { o \in [1..Cardinality(S) -> S] : \A p \in S : \E i \in 1..Cardinality(S) : o[i] = p }

\* the paths of the workspace
Paths ==
    { <<"/", "a", "x", ".", "j", "s">>,
      <<"/", "x", ".", "j", "s">>,
      <<"/", "d", "i", "s", "t", "/", "x", ".", "j", "s">>,
      <<"/", "x", ".", "t", "s">> }

\* the documents provideDefinition is asked about
DefDocs == { <<"<", "x", ">">> }

CacheIdle ==
    /\ componentFilesPathCache = <<>>
    /\ disk = {}
    /\ searches = <<>>
    /\ definition = Null

\* activate: the cache is empty and getAllWorkspaceFiles() is called, not
\* awaited; it is suspended at its await of findFiles
CacheInit ==
    /\ componentFilesPathCache = <<>>
    /\ disk \in SUBSET Paths
    /\ searches = <<[pc |-> "pending", files |-> {}, deletedSince |-> {}]>>
    /\ definition = Null

\* refreshCommand: clear the cache, then getAllWorkspaceFiles() up to its
\* await of findFiles
RefreshCache ==
    /\ Len(searches) < MaxSearches
    /\ componentFilesPathCache' = <<>>
    /\ searches' = Append(searches, [pc |-> "pending", files |-> {}, deletedSince |-> {}])
    /\ UNCHANGED <<disk, definition>>
    /\ UNCHANGED <<scanVars, loadVars, complVars, ignoreVars>>

\* the host computes the result of a pending findFiles from the files that
\* exist at that moment
FindFilesResolves ==
    /\ \E i \in 1..Len(searches) : \E excludes \in BOOLEAN :
        /\ searches[i].pc = "pending"
        /\ searches' = [searches EXCEPT ![i] = [pc |-> "found", files |-> findFiles(disk, excludes), deletedSince |-> {}]]
    /\ UNCHANGED <<componentFilesPathCache, disk, definition>>
    /\ UNCHANGED <<scanVars, loadVars, complVars, ignoreVars>>

\* getAllWorkspaceFiles resumes after its await and adds every file found
GetAllWorkspaceFilesResumes ==
    /\ \E i \in 1..Len(searches) : \E fileUris \in Orderings(searches[i].files) :
        /\ searches[i].pc = "found"
        /\ componentFilesPathCache' = AddAll(componentFilesPathCache, fileUris)
        /\ searches' = SubSeq(searches, 1, i - 1) \o SubSeq(searches, i + 1, Len(searches))
    /\ UNCHANGED <<disk, definition>>
    /\ UNCHANGED <<scanVars, loadVars, complVars, ignoreVars>>

\* the results in flight once the delete event of gone has been handled and
\* the files of back exist again
Since(gone, back) ==
    [i \in 1..Len(searches) |->
        [searches[i] EXCEPT !.deletedSince = (@ \cup (gone \cap searches[i].files)) \ back]]

\* a file is created and createListener handles the event
CreateFile ==
    /\ \E filePath \in Paths \ disk :
        /\ disk' = disk \cup {filePath}
        /\ componentFilesPathCache' =
             IF isIgnoredPath(filePath) THEN componentFilesPathCache
             ELSE IF IsJs(filePath) THEN SetAdd(componentFilesPathCache, filePath)
             ELSE componentFilesPathCache
        /\ searches' = Since({}, {filePath})
    /\ UNCHANGED definition
    /\ UNCHANGED <<scanVars, loadVars, complVars, ignoreVars>>

\* a file is deleted and deleteListener handles the event
DeleteFile ==
    /\ \E filePath \in disk :
        /\ disk' = disk \ {filePath}
        /\ componentFilesPathCache' =
             IF isIgnoredPath(filePath) THEN componentFilesPathCache
             ELSE IF IsJs(filePath) THEN SetDelete(componentFilesPathCache, filePath)
             ELSE componentFilesPathCache
        /\ searches' = Since({filePath}, {})
    /\ UNCHANGED definition
    /\ UNCHANGED <<scanVars, loadVars, complVars, ignoreVars>>

\* a file is renamed or moved and renameListener handles the event
RenameFile ==
    /\ \E oldPath \in disk : \E newPath \in Paths \ disk :
        /\ disk' = (disk \ {oldPath}) \cup {newPath}
        /\ componentFilesPathCache' =
             IF isIgnoredPath(newPath) THEN componentFilesPathCache
             ELSE IF IsJs(oldPath) \/ IsJs(newPath)
                  THEN SetAdd(SetDelete(componentFilesPathCache, oldPath), newPath)
             ELSE componentFilesPathCache
        /\ searches' = Since({}, {newPath})
    /\ UNCHANGED definition
    /\ UNCHANGED <<scanVars, loadVars, complVars, ignoreVars>>

\* the host asks the definition provider about a position of a document
ProvideDefinition ==
    /\ \E doc \in DefDocs : \E pos \in Positions(doc) :
        definition' = [document |-> doc, position |-> pos,
                       result |-> provideDefinition(doc, pos, componentFilesPathCache, disk)]
    /\ UNCHANGED <<componentFilesPathCache, disk, searches>>
    /\ UNCHANGED <<scanVars, loadVars, complVars, ignoreVars>>

(***************************************************************************)
(* isIgnoredPath alone: a path and the function.                           *)
(***************************************************************************)
MaxSegments == 3    \* the most segments of a path of IgnorePaths

\* the directory and file names of the paths
SegmentNames ==
    { <<"n", "o", "d", "e", "_", "m", "o", "d", "u", "l", "e", "s">>,
      <<".", "g", "i", "t">>,
      <<"a", "g", "i", "t">>,
      <<"d", "i", "s", "t">>,
      <<"D", "i", "s", "t">>,
      <<"d", "i", "s", "t", "2">>,
      <<"a">>,
      <<"x", ".", "j", "s">> }

\* the paths of n segments, joined by `/` or `\`
RECURSIVE PathsOf(_)
PathsOf(n) ==
    IF n = 1 THEN SegmentNames
    ELSE { p \o <<sep>> \o seg : p \in PathsOf(n - 1), sep \in {"/", "\\"}, seg \in SegmentNames }

\* relative paths, and absolute ones of either separator
IgnorePaths ==
    LET rel == UNION { PathsOf(n) : n \in 1..MaxSegments }
    IN  rel \cup { <<"/">> \o p : p \in rel }

IgnoreIdle ==
    /\ checkedPath = <<>>
    /\ ignored = Null

IgnoreInit ==
    /\ checkedPath \in IgnorePaths
    /\ ignored = Null

\* isIgnoredPath(checkedPath), with the default ignoreDirs
IsIgnoredPath ==
    /\ ignored' = [result |-> isIgnoredPath(checkedPath)]
    /\ UNCHANGED checkedPath
    /\ UNCHANGED <<scanVars, loadVars, complVars, cacheVars>>

(***************************************************************************)
(* The specifications.                                                     *)
(***************************************************************************)
ScanNext == GetHtmlTagName \/ GetAttributeName
LoadNext == LoadStart \/ StatRejects \/ StatResolves
ComplNext == ProvideCompletionItems
IgnoreNext == IsIgnoredPath
CacheNext ==
    \/ RefreshCache
    \/ FindFilesResolves
    \/ GetAllWorkspaceFilesResumes
    \/ CreateFile
    \/ DeleteFile
    \/ RenameFile
    \/ ProvideDefinition

ScanIdle ==
    /\ document = <<>>
    /\ position = <<0, 0>>
    /\ scan = Null
    /\ attr = Null

InitScan == ScanInit /\ LoadIdle /\ ComplIdle /\ CacheIdle /\ IgnoreIdle
InitLoad == LoadInit /\ ScanIdle /\ ComplIdle /\ CacheIdle /\ IgnoreIdle
InitCompletion == ComplInit /\ LoadIdle /\ CacheIdle /\ IgnoreIdle
InitCache == CacheInit /\ ScanIdle /\ LoadIdle /\ ComplIdle /\ IgnoreIdle
InitIgnore == IgnoreInit /\ ScanIdle /\ LoadIdle /\ ComplIdle /\ CacheIdle

SpecScan == InitScan /\ [][ScanNext]_vars
SpecLoad == InitLoad /\ [][LoadNext]_vars
SpecCompletion == InitCompletion /\ [][ComplNext]_vars
SpecCache == InitCache /\ [][CacheNext]_vars
SpecIgnore == InitIgnore /\ [][IgnoreNext]_vars

(***************************************************************************)
(* What the claims about the scanner speak of, stated on the text alone.   *)
(***************************************************************************)
\* the well-formed start tags of a text: a "<" at offset lt, the first word
\* after it (white space may precede it), and the first ">" after that, at
\* offset gt, with no other "<" in between
StartTags(text) ==
    { t \in [lt : 0..(Len(text) - 1), gt : 0..(Len(text) - 1)] :
        /\ t.lt < t.gt
        /\ CharAt(text, t.lt) = "<"
        /\ CharAt(text, t.gt) = ">"
        /\ \A i \in (t.lt + 1)..(t.gt - 1) : CharAt(text, i) \notin {"<", ">"}
        /\ Run(text, t.lt + 2 + Run(text, t.lt + 2, Whitespace), NameChars) > 0 }

\* the offsets of the first character of the tag's name and just after its last
NameStart(text, t) == t.lt + 1 + Run(text, t.lt + 2, Whitespace)
NameEnd(text, t) == NameStart(text, t) + Run(text, NameStart(text, t) + 1, NameChars)
NameOf(text, t) == substring(text, NameStart(text, t), NameEnd(text, t))
RangeOf(t) == <<t.lt + 1, t.gt>>

\* String.prototype.startsWith
StartsWith(s, prefix) == Len(prefix) <= Len(s) /\ SubSeq(s, 1, Len(prefix)) = prefix

\* the offsets, in the tag t, at which an attribute's name starts: a name
\* character after white space, outside quotes, and not the value of an "="
AttributeStarts(text, t) ==
    { i \in (NameEnd(text, t) + 1)..(t.gt - 1) :
        /\ CharAt(text, i) \in NameChars
        /\ CharAt(text, i - 1) \in Whitespace
        /\ Cardinality({ j \in NameEnd(text, t)..(i - 1) : CharAt(text, j) = "\"" }) % 2 = 0
        /\ Cardinality({ j \in NameEnd(text, t)..(i - 1) : CharAt(text, j) = "'" }) % 2 = 0
        /\ \A j \in NameEnd(text, t)..(i - 1) :
              (\A k \in (j + 1)..(i - 1) : CharAt(text, k) \in Whitespace)
                  => CharAt(text, j) # "=" }

\* the attribute name that starts at offset i
AttributeAt(text, i) == SubSeq(text, i + 1, i + Run(text, i + 1, NameChars))

\* the attribute list of the tag t is wrapped: a line break follows its name
Wrapped(text, t) == \E i \in NameEnd(text, t)..(t.gt - 1) : CharAt(text, i) = "\n"

\* the cursor at offset o is inside some "<" ... ">" span of the text
InsideSpan(text, o) ==
    \E lt \in 0..(o - 1), gt \in o..(Len(text) - 1) :
        CharAt(text, lt) = "<" /\ CharAt(text, gt) = ">"

(***************************************************************************)
(* C1. With the cursor strictly between the "<" and the ">" of a           *)
(* well-formed tag, getHtmlTagName returns the lower-cased first word      *)
(* after "<" as tagName and a range whose text, trimmed, starts with that  *)
(* name (compared in lower case).                                          *)
(***************************************************************************)
TagNameInsideTag ==
    scan # Null =>
        \A t \in StartTags(document) :
            (t.lt < docOffset /\ docOffset <= t.gt) =>
                /\ scan.tagName = toLowerCase(NameOf(document, t))
                /\ scan.range # Null
                /\ StartsWith(toLowerCase(trim(substring(document, scan.range[1], scan.range[2]))),
                              scan.tagName)

(***************************************************************************)
(* C2. With the cursor in the tag-name region of a tag (after its "<", at  *)
(* or before the end of its name), getAttributeName called with that       *)
(* tag's range returns null, whatever attributes follow the name.          *)
(***************************************************************************)
NoAttributeInTagName ==
    attr # Null =>
        \A t \in StartTags(document) :
            (attr[1] = RangeOf(t) /\ t.lt < docOffset /\ docOffset <= NameEnd(document, t))
                => attr[2] = Null

(***************************************************************************)
(* C3. In a tag whose attribute list is wrapped across lines, with the     *)
(* cursor at the first character of an attribute's name getAttributeName   *)
(* returns that attribute's lower-cased name, for every attribute.         *)
(***************************************************************************)
WrappedAttributeFound ==
    attr # Null =>
        \A t \in StartTags(document) :
            (attr[1] = RangeOf(t) /\ Wrapped(document, t)
                /\ docOffset \in AttributeStarts(document, t))
                => attr[2] = toLowerCase(AttributeAt(document, docOffset))

(***************************************************************************)
(* C4. With the cursor outside every "<" ... ">" span of the text,         *)
(* getHtmlTagName returns {tagName: null, range: null, isEndTag: false}.   *)
(***************************************************************************)
EmptyOutsideTags ==
    scan # Null => (~InsideSpan(document, docOffset) => scan = EmptyRes)

(***************************************************************************)
(* What the claims about the manifest merge speak of.                      *)
(***************************************************************************)
manifest == configFile.entries

\* the names the i-th key of the manifest declares
NamesOf(i) == { keysOf(manifest[i][1])[k] : k \in 1..Len(keysOf(manifest[i][1])) }

AllNames == UNION { NamesOf(i) : i \in 1..Len(manifest) }

\* the keys that declare name n
Declaring(n) == { i \in 1..Len(manifest) : n \in NamesOf(i) }

\* the entry of name n in the registry loadWorkspaceConfig returned
EntryOf(n) == Get(Registry(loaded.obj, heap), n)

LoadReturned == loadPc = "done" /\ configFile.kind = "object"

\* a map as the set of its <<key, value>> pairs
Pairs(m) == { m[i] : i \in 1..Len(m) }

\* the description and the attributes that the declarations ds (indices of
\* keys, in order) of one name merge to
RECURSIVE MergedDescription(_, _)
MergedDescription(ds, sofar) ==
    IF ds = <<>> THEN sofar
    ELSE MergedDescription(Tail(ds),
            IF manifest[Head(ds)][2].description # "" THEN manifest[Head(ds)][2].description
            ELSE sofar)

RECURSIVE MergedAttributes(_, _)
MergedAttributes(ds, sofar) ==
    IF ds = <<>> THEN sofar
    ELSE MergedAttributes(Tail(ds), ObjectAssign(sofar, manifest[Head(ds)][2].attributes))

\* a set of indices as the sequence of its elements in order
RECURSIVE InOrder(_)
InOrder(set) ==
    IF set = {} THEN <<>>
    ELSE LET least == CHOOSE i \in set : \A j \in set : i <= j
         IN  <<least>> \o InOrder(set \ {least})

(***************************************************************************)
(* C5. When a key declares several names and a later key declares again    *)
(* only some of them, the entry of a name that no other key declares is    *)
(* left as its own declaration gave it: same description, same attributes. *)
(***************************************************************************)
OtherNameUnchanged ==
    LoadReturned =>
        \A i \in 1..Len(manifest) : \A j \in (i + 1)..Len(manifest) : \A a \in NamesOf(i) :
            (/\ Declaring(a) = {i}
             /\ \E b \in NamesOf(i) \ {a} : b \in NamesOf(j)
             /\ Has(loaded.obj, a))
            => /\ EntryOf(a).description = manifest[i][2].description
               /\ EntryOf(a).attributes = manifest[i][2].attributes

(***************************************************************************)
(* C6. The merged entry of a name that several keys declare has the        *)
(* description of the last declaration with a non-empty description and,   *)
(* as attributes, the key-wise union of the attributes of its              *)
(* declarations, a later attribute replacing an earlier one of that name.  *)
(***************************************************************************)
MergedEntry ==
    LoadReturned =>
        \A n \in AllNames :
            (Cardinality(Declaring(n)) > 1 /\ Has(loaded.obj, n))
            => /\ EntryOf(n).description = MergedDescription(InOrder(Declaring(n)), "")
               /\ Pairs(EntryOf(n).attributes)
                    = Pairs(MergedAttributes(InOrder(Declaring(n)), <<>>))

(***************************************************************************)
(* What the claims about provideCompletionItems speak of: the scan of the  *)
(* request, the attribute under the cursor, the attributes the registry    *)
(* declares for the tag.                                                   *)
(***************************************************************************)
Served == completion # Null /\ editor # Null

reqOffset == offsetAt(editor.document, position)
reqScan == getHtmlTagName(editor.document, reqOffset)
reqAttr == getAttributeName(editor.document, reqOffset, reqScan.range)

\* a tag name is resolved and the scan is not an end tag
TagResolved == Served /\ ~reqScan.isEndTag /\ reqScan.tagName # Null

\* the attributes the registry declares for the tag: none without an entry
Declared ==
    IF Has(componentsTags, reqScan.tagName) /\ Get(componentsTags, reqScan.tagName).hasAttributes
    THEN Get(componentsTags, reqScan.tagName).attributes
    ELSE <<>>

\* the cursor is in an attribute that the registry declares for the tag
RegisteredAttribute == TagResolved /\ reqAttr # Null /\ Has(Declared, reqAttr)

\* the text of a value as written: a string as it is, a number in decimal
Verbatim(val) ==
    IF "str" \in DOMAIN val THEN val.str
    ELSE IF val.num < 10 THEN <<DigitChar(val.num)>>
    ELSE <<DigitChar(val.num \div 10), DigitChar(val.num % 10)>>

\* what a suggestion shows and inserts
Shown(items) == [i \in 1..Len(items) |-> <<items[i].label, items[i].kind, items[i].insertText>>]

(***************************************************************************)
(* C7. provideCompletionItems never raises an error.                       *)
(***************************************************************************)
CompletionNeverThrows == completion # Null => completion.kind # "TypeError"

AttributeSuggestions ==
    (TagResolved /\ ~RegisteredAttribute) =>
        LET content == substring(editor.document, reqScan.range[1], reqScan.range[2])
            absent  == { i \in 1..Len(Declared) : ~includes(content, Declared[i][1] \o <<"=">>) }
        IN  /\ completion.kind = "items"
            /\ Len(completion.items) = Cardinality(absent)
            /\ { Shown(completion.items)[k] : k \in 1..Len(completion.items) }
                 = { <<Declared[i][1], "Property",
                       Declared[i][1] \o <<"=", "\"", "$", "0", "\"">>>> : i \in absent }

(***************************************************************************)
(* What the claim about provideDefinition speaks of: the tag name under    *)
(* the cursor of a request and the cached paths that end with              *)
(* `<tagName>.js`, by their place in the cache.                            *)
(***************************************************************************)
TagOf(d) == getTagNameAtPosition(d.document, d.position)

CachedFor(tagName) ==
    { i \in 1..Len(componentFilesPathCache) :
        endsWith(componentFilesPathCache[i], tagName \o <<".", "j", "s">>) }

ExistingFor(tagName) == { i \in CachedFor(tagName) : componentFilesPathCache[i] \in disk }

(***************************************************************************)
(* C10. Every call of provideDefinition returns a result only if the       *)
(* cursor is on a tag name and the cache holds a path ending with          *)
(* `<tagName>.js` whose file exists; the result is then exactly one        *)
(* location, at (0,0) of the first such path in insertion order; with no   *)
(* cached path ending with `<tagName>.js`, or no tag name under the        *)
(* cursor, there is no result.                                             *)
(***************************************************************************)
DefinitionFirstCached ==
    [][definition' # definition =>
        LET d == definition'
        IN  /\ d.result # Null =>
                /\ TagOf(d) # Null
                /\ ExistingFor(TagOf(d)) # {}
                /\ Len(d.result) = 1
                /\ d.result[1].range = <<<<0, 0>>, <<0, 0>>>>
                /\ d.result[1].uri =
                     componentFilesPathCache[CHOOSE i \in ExistingFor(TagOf(d)) :
                                                \A k \in ExistingFor(TagOf(d)) : i <= k]
            /\ (TagOf(d) = Null \/ CachedFor(TagOf(d)) = {}) => d.result = Null]_vars

\* C10's case: a location is returned for a tag whose first matching path
\* is not the first of the cache, while a later cached path, which exists,
\* ends with the same name
DefinitionFirstCachedWitness ==
    /\ definition # Null
    /\ definition.result # Null
    /\ definition.result
         = provideDefinition(definition.document, definition.position,
                             componentFilesPathCache, disk)
    /\ \E i \in ExistingFor(TagOf(definition)) : \E k \in ExistingFor(TagOf(definition)) :
        /\ 1 < i
        /\ i < k
        /\ definition.result[1].uri = componentFilesPathCache[i]

(***************************************************************************)
(* What the claim about isIgnoredPath speaks of: the segments of a path    *)
(* between its separators, `\` counted as `/`.                             *)
(***************************************************************************)
IsSeparator(c) == c = "/" \/ c = "\\"

\* the segments of a path: the longest runs without a separator
SegmentsOf(path) ==
    { SubSeq(path, ij[1], ij[2]) : ij \in
        { q \in (1..Len(path)) \X (1..Len(path)) :
            /\ q[1] <= q[2]
            /\ \A k \in q[1]..q[2] : ~IsSeparator(path[k])
            /\ q[1] = 1 \/ IsSeparator(path[q[1] - 1])
            /\ q[2] = Len(path) \/ IsSeparator(path[q[2] + 1]) } }

IgnoredNames ==
    { <<"n", "o", "d", "e", "_", "m", "o", "d", "u", "l", "e", "s">>,
      <<".", "g", "i", "t">>,
      <<"d", "i", "s", "t">> }

\* some segment is one of the three names, compared case-insensitively
InIgnoredDirectory(path) == \E seg \in SegmentsOf(path) : toLowerCase(seg) \in IgnoredNames

(***************************************************************************)
(* C11. isIgnoredPath(path) is true if and only if some segment of the     *)
(* path, `\` counted as `/`, equals node_modules, .git or dist, compared   *)
(* case-insensitively.                                                     *)
(***************************************************************************)
IgnoredIffSegment ==
    ignored # Null => (ignored.result <=> InIgnoredDirectory(checkedPath))

(***************************************************************************)
(* C12. loadWorkspaceConfig never raises; without a workspace, or with a   *)
(* manifest that is missing, cannot be read or is not valid JSON, it       *)
(* resolves to the empty registry; it shows nothing to the user.           *)
(***************************************************************************)
LoadNeverRaises ==
    loadPc = "done" =>
        /\ "error" \notin DOMAIN loaded
        /\ configFile.kind \in {"noWorkspace", "noFolders", "missing", "unreadable", "invalid"}
             => loaded.obj = <<>>
        /\ messages = <<>>

(***************************************************************************)
(* What the claims about the result of getHtmlTagName speak of: the        *)
(* delimiters around the cursor.                                           *)
(***************************************************************************)
\* the offsets before the cursor, and from the cursor on, that hold a
\* character of the set
Before(set) == { j \in 0..(docOffset - 1) : CharAt(document, j) \in set }
From(set) == { i \in docOffset..(Len(document) - 1) : CharAt(document, i) \in set }

Greatest(S) == CHOOSE i \in S : \A k \in S : k <= i
Least(S) == CHOOSE i \in S : \A k \in S : i <= k

\* the tag content of a result with a range
ContentOf(res) == substring(document, res.range[1], res.range[2])

(***************************************************************************)
(* C13. A non-null range of getHtmlTagName starts just after the nearest   *)
(* `<` before the cursor and ends at the least index i >= offset with      *)
(* text[i] = `>`, so the tag content holds neither `<` nor `>`; with no    *)
(* `>` from the offset to the end of the text there is no tag name and no  *)
(* range.                                                                  *)
(***************************************************************************)
RangeBetweenDelimiters ==
    scan # Null =>
        /\ scan.range # Null =>
            /\ Before({"<"}) # {}
            /\ scan.range[1] - 1 = Greatest(Before({"<"}))
            /\ From({">"}) # {}
            /\ scan.range[2] = Least(From({">"}))
            /\ \A i \in 1..Len(ContentOf(scan)) : ContentOf(scan)[i] \notin {"<", ">"}
        /\ From({">"}) = {} => (scan.tagName = Null /\ scan.range = Null)

RangeHoldsCursor ==
    (scan # Null /\ scan.range # Null) =>
        /\ scan.range[1] <= docOffset
        /\ docOffset <= scan.range[2]

(***************************************************************************)
(* What the claims about the file cache speak of.                          *)
(***************************************************************************)
Cached == { componentFilesPathCache[i] : i \in 1..Len(componentFilesPathCache) }
CachedNext == { componentFilesPathCache'[i] : i \in 1..Len(componentFilesPathCache') }

(***************************************************************************)
(* C16. When the rename handler has processed the rename of a cached .js   *)
(* file from oldPath to newPath, the cache does not contain oldPath,       *)
(* whatever newPath is, and it contains newPath exactly when newPath is    *)
(* not in an ignored directory.                                            *)
(***************************************************************************)
RenameReplacesOldPath ==
    [][\A oldPath \in disk \ disk' : \A newPath \in disk' \ disk :
          (IsJs(oldPath) /\ oldPath \in Cached) =>
              /\ oldPath \notin CachedNext
              /\ newPath \in CachedNext <=> ~InIgnoredDirectory(newPath)]_vars

(***************************************************************************)
(* C17. As long as the workspace search returns no path of an ignored      *)
(* directory, no step of the enumeration at startup, of a refresh or of    *)
(* the create, delete and rename handlers brings such a path into the      *)
(* cache, which is empty at first: no reachable cache holds one.           *)
(***************************************************************************)
CacheFreeOfIgnored ==
    [][(/\ \A p \in Cached : ~InIgnoredDirectory(p)
        /\ \A i \in 1..Len(searches) : \A p \in searches[i].files : ~InIgnoredDirectory(p))
       => \A p \in CachedNext : ~InIgnoredDirectory(p)]_vars

\* C17's case: a file of an ignored directory exists, the rebuild has
\* completed, files are cached and none of them is of an ignored directory
CacheFreeOfIgnoredWitness ==
    /\ \E p \in disk : InIgnoredDirectory(p)
    /\ searches = <<>>
    /\ Len(componentFilesPathCache) >= 2
    /\ \A p \in Cached : ~InIgnoredDirectory(p)

(***************************************************************************)
(* C18. A rebuild that completes after the delete event of a .js file has  *)
(* been handled does not bring the file's path back into the cache: a      *)
(* search result computed before the deletion never re-adds it.            *)
(***************************************************************************)
DeletedNotReadded ==
    [][\A i \in 1..Len(searches) :
          (/\ searches[i].pc = "found"
           /\ searches' = SubSeq(searches, 1, i - 1) \o SubSeq(searches, i + 1, Len(searches)))
          => \A p \in searches[i].deletedSince :
                (IsJs(p) /\ ~InIgnoredDirectory(p)) => p \notin CachedNext]_vars

(***************************************************************************)
(* C19. The result of provideCompletionItems is a function of the document *)
(* and position passed to the call and of the registry only: a call with   *)
(* the same three and any other active editor, with its selection          *)
(* anywhere, returns the same suggestions, the leading `<` of a tag-name    *)
(* suggestion included.                                                    *)
(***************************************************************************)
SuggestionsOfSnapshotOnly ==
    completion # Null =>
        \A other \in Editors(document, position) :
            provideCompletionItems(other, position, componentsTags) = completion

====
